---- MODULE Spec2Model ----
(***************************************************************************)
(* cogi-quant: the PairedSet container (objects/pairedset.py), the series  *)
(* utilities (processing/series.py) and the indicators (mat/technicals.py).*)
(*                                                                         *)
(* A numpy array is modelled as a record [dtype, data]: data is the        *)
(* sequence of its elements, dtype the element type numpy stores them in   *)
(* ("int64", "float64", or "str" for text keys).  Numbers are integers;    *)
(* an int64 n and a float64 n are the same number stored differently, so   *)
(* a promotion int64 -> float64 changes dtype and leaves data alone.  The  *)
(* missing cell (np.nan) is the element NaN, which only a float64 array    *)
(* can hold.  Keys are small naturals: in an "int64"/"float64" array the   *)
(* key k is the number k, in a "str" array it is the k-th text label (a    *)
(* date string, say); an array of dtype "str" holds every element as text. *)
(* Every key sequence handed to the program is of one kind, and a          *)
(* container only ever meets containers of its own kind of key (the data   *)
(* model: keys are mutually comparable, values are numeric).  A pandas     *)
(* Series is a record [index, name, values] of two arrays and a name.      *)
(* The state is one container (constructed, X, Y) and the last call made   *)
(* on it: op, its arguments args and its outcome ret.                      *)
(*                                                                         *)
(* What pandas computes (fill, normalize_series, the indicators) is held   *)
(* cell by cell as an exact fraction [num, den]: den > 0 is a number, 0/0  *)
(* is nan and +-1/0 the infinities.  Spec follows a container through      *)
(* every sequence of calls; SpecSeries applies one function of series.py   *)
(* or technicals.py to one input, given as a pd.Series or as a PairedSet.  *)
(***************************************************************************)
EXTENDS Integers, Sequences, FiniteSets, TLC

\* ------------------------------------------------------------------ bounds
MaxKey == 2
MaxVal == 2
MaxIn == 2
MaxLen == 3
MaxWindow == 2
MaxSeriesLen == 3
MaxPeriod == 2

\* the missing cell, np.nan
NaN == 0 - 999

VARIABLES constructed, X, Y, op, args, ret

vars == <<constructed, X, Y, op, args, ret>>

\* ------------------------------------------------------------ python values
None == [tag |-> "None"]

Return(v) == [kind |-> "return", exc |-> "", val |-> v]

Raise(e) == [kind |-> "raise", exc |-> e, val |-> None]

\* sequences over S of length 0..n
SeqUpTo(S, n) == UNION {[1..m -> S] : m \in 0..n}

Keys == 1..MaxKey

Numbers == 1..MaxVal

Vals == Numbers \cup {NaN}

\* a python list of keys: integers, or text labels
KeyLists ==
  {[kind |-> k, data |-> d] : k \in {"list_int", "list_str"}, d \in SeqUpTo(Keys, MaxIn)}

\* a python list of values: integers, or floats (which may hold nan)
ValLists ==
  {[kind |-> "list_int", data |-> d] : d \in SeqUpTo(Numbers, MaxIn)}
    \cup {[kind |-> "list_float", data |-> d] : d \in SeqUpTo(Vals, MaxIn)}

\* a bare number given where a sequence is expected: len() of it raises
Scalar(v) == [kind |-> "scalar", data |-> <<v>>]

\* ------------------------------------------------------------------- numpy
\* an ndarray handed on as an argument
AsArg(arr) == [kind |-> arr.dtype, data |-> arr.data]

\* np.array(object): an ndarray keeps its dtype; an empty list gives float64,
\* any other list the type of its elements
np_array(lst) ==
  [dtype |-> IF lst.kind \in {"int64", "float64", "str"} THEN lst.kind
             ELSE IF lst.data = <<>> THEN "float64"
             ELSE IF lst.kind = "list_int" THEN "int64"
             ELSE IF lst.kind = "list_float" THEN "float64"
             ELSE "str",
   data |-> lst.data]

\* numpy's common type of two arrays: int64 < float64 < str
promote(a, b) ==
  IF a = "str" \/ b = "str" THEN "str"
  ELSE IF a = "float64" \/ b = "float64" THEN "float64"
  ELSE "int64"

\* np.append with its operands swapped
np_append_Swapped(arr, values) ==
  [dtype |-> promote(arr.dtype, values.dtype), data |-> values.data \o arr.data]

\* np.append(arr, values) on 1-d arrays: a new array, arr then values
np_append(arr, values) ==
  [dtype |-> promote(arr.dtype, values.dtype), data |-> arr.data \o values.data]

\* ---------------------------------------------------------------- PairedSet
\* __init__ without its length check
PairedSet_NoLengthCheck(indexing_array, value_array) ==
  IF indexing_array.kind = "scalar" \/ value_array.kind = "scalar"
    THEN Raise("TypeError")
  ELSE Return([X |-> np_array(indexing_array), Y |-> np_array(value_array)])

\* PairedSet.__init__: the outcome of PairedSet(indexing_array, value_array)
PairedSet(indexing_array, value_array) ==
  IF indexing_array.kind = "scalar" \/ value_array.kind = "scalar"
    THEN Raise("TypeError")
  ELSE IF Len(indexing_array.data) # Len(value_array.data)
    THEN Raise("Exception: Arrays differ in length.")
  ELSE Return([X |-> np_array(indexing_array), Y |-> np_array(value_array)])

\* the containers a caller can build
Containers ==
  UNION {{PairedSet(i, v).val : v \in {w \in ValLists : Len(w.data) = Len(i.data)}} :
           i \in KeyLists}

\* other holds keys of the same kind as the container's (or one is empty)
SameKind(a, b) ==
  \/ a.data = <<>>
  \/ b.data = <<>>
  \/ (a.dtype = "str") = (b.dtype = "str")

Init ==
  /\ constructed = FALSE
  /\ X = np_array([kind |-> "list_float", data |-> <<>>])
  /\ Y = np_array([kind |-> "list_float", data |-> <<>>])
  /\ op = "none"
  /\ args = None
  /\ ret = Return(None)

\* P = PairedSet(indexing_array, value_array)
Construct(indexing_array, value_array) ==
  /\ ~constructed
  /\ LET r == PairedSet(indexing_array, value_array) IN
       /\ ret' = r
       /\ constructed' = (r.kind = "return")
       /\ X' = IF r.kind = "return" THEN r.val.X ELSE X
       /\ Y' = IF r.kind = "return" THEN r.val.Y ELSE Y
  /\ op' = "construct"
  /\ args' = [indexing_array |-> indexing_array, value_array |-> value_array]

\* the container as one value
Self == [X |-> X, Y |-> Y]

\* append_paired_set without its second assignment
append_paired_set_obj_OnlyX(self, other) ==
  [X |-> np_append(self.X, other.X), Y |-> self.Y]

\* PairedSet.append_paired_set: self after the two assignments, X then Y
\* (np.append cannot fail on arrays of numbers, or of keys of one kind)
append_paired_set_obj(self, other) ==
  [X |-> np_append(self.X, other.X), Y |-> np_append(self.Y, other.Y)]

append_paired_set(other) ==
  /\ constructed
  /\ SameKind(X, other.X)
  /\ Len(X.data) + Len(other.X.data) <= MaxLen
  /\ X' = append_paired_set_obj(Self, other).X
  /\ Y' = append_paired_set_obj(Self, other).Y
  /\ op' = "append_paired_set"
  /\ args' = [other |-> other]
  /\ ret' = Return(None)
  /\ UNCHANGED constructed

\* the argument tuples of append_single_pair(*args): n is len(args), isPS says
\* whether args[0] is a PairedSet (then it is other), x and y are args[0], args[1]
NoArg == [kind |-> "none", data |-> <<>>]

ArgsPairedSet(other) == [n |-> 1, isPS |-> TRUE, other |-> other, x |-> NoArg, y |-> NoArg]

ArgsValues(n, x, y) == [n |-> n, isPS |-> FALSE, other |-> None, x |-> x, y |-> y]

\* a key given as a bare value, and the list [key]
KeyArgs == {[kind |-> k, data |-> <<d>>] : k \in {"list_int", "list_str"}, d \in Keys}

\* a value given as a bare number, or (misuse) as a one-element list
ValArgs == {Scalar(v) : v \in Vals} \cup {w \in ValLists : Len(w.data) = 1}

\* PairedSet.append_single_pair: [self |-> the container afterwards, ret |-> outcome]
append_single_pair_obj(self, a) ==
  LET \* if len(args)==1 and isinstance(args[0], PairedSet): self.append_paired_set(args[0])
      s1 == IF a.n = 1 /\ a.isPS THEN append_paired_set_obj(self, a.other) ELSE self
      \* PairedSet([args[0]], args[1])
      made == PairedSet(a.x, a.y)
  IN  \* the generator expression after "and" is an object, hence true
      IF a.n = 2
        THEN IF made.kind = "raise"
               THEN [self |-> s1, ret |-> made]
               ELSE [self |-> append_paired_set_obj(s1, made.val), ret |-> Return(None)]
        ELSE [self |-> s1, ret |-> Raise("TypeError: Expected PairedSet or two values.")]

append_single_pair(a) ==
  /\ constructed
  /\ a.isPS => SameKind(X, a.other.X) /\ Len(X.data) + Len(a.other.X.data) <= MaxLen
  /\ a.n = 2 => SameKind(X, np_array(a.x)) /\ Len(X.data) + 1 <= MaxLen
  /\ X' = append_single_pair_obj(Self, a).self.X
  /\ Y' = append_single_pair_obj(Self, a).self.Y
  /\ ret' = append_single_pair_obj(Self, a).ret
  /\ op' = "append_single_pair"
  /\ args' = a
  /\ UNCHANGED constructed

\* a conversion that drops the cells it cannot represent
astype_float64_DropNaN(arr) ==
  [dtype |-> "float64", data |-> SelectSeq(arr.data, LAMBDA v : v # NaN)]

\* PairedSet.npfloat_values: self.Y.astype(np.float64, copy=False)
astype_float64(arr) == [dtype |-> "float64", data |-> arr.data]

npfloat_values ==
  /\ constructed
  /\ Y' = astype_float64(Y)
  /\ op' = "npfloat_values"
  /\ args' = None
  /\ ret' = Return(None)
  /\ UNCHANGED <<constructed, X>>

\* arr[index]: python indexing, a negative index counts from the end
np_getitem(arr, index) ==
  LET n == Len(arr.data) IN
    IF 0 <= index /\ index < n THEN Return(arr.data[index + 1])
    ELSE IF 0 - n <= index /\ index < 0 THEN Return(arr.data[n + index + 1])
    ELSE Raise("IndexError")

\* PairedSet.get_pair_at_index: np.array([self.X[index], self.Y[index]]) stores
\* the two elements in their common type (with a text key, the value as text);
\* the except branch builds an Exception, raises nothing, and the call returns None
get_pair_at_index_obj(self, index) ==
  LET x == np_getitem(self.X, index)
      y == np_getitem(self.Y, index)
  IN  IF x.kind = "raise" \/ y.kind = "raise"
        THEN Return(None)
        ELSE Return([dtype |-> promote(self.X.dtype, self.Y.dtype), data |-> <<x.val, y.val>>])

get_pair_at_index(index) ==
  /\ constructed
  /\ ret' = get_pair_at_index_obj(Self, index)
  /\ op' = "get_pair_at_index"
  /\ args' = [index |-> index]
  /\ UNCHANGED <<constructed, X, Y>>

\* bool(arr == None) in "if self.X==None or self.Y==None": the comparison is
\* elementwise (no element is None); the truth value of the result is False for
\* one element, an error for two or more, and for none False or an error
\* depending on the numpy release (setup.py: numpy>=1.24)
array_truth(arr) ==
  IF Len(arr.data) = 1 THEN {Return(FALSE)}
  ELSE IF Len(arr.data) = 0 THEN {Return(FALSE), Raise("ValueError")}
  ELSE {Raise("ValueError")}

\* PairedSet.get_corresponding_Yvalue: the outcomes the call can have; the scan
\* "for index_value in self.X: if index_value == X_value: pass" returns nothing
get_corresponding_Yvalue_obj(self, X_value) ==
  {IF tx.kind = "raise" THEN tx
   ELSE IF ty.kind = "raise" THEN ty
   ELSE Return(None) : tx \in array_truth(self.X), ty \in array_truth(self.Y)}

get_corresponding_Yvalue(X_value) ==
  /\ constructed
  /\ ret' \in get_corresponding_Yvalue_obj(Self, X_value)
  /\ op' = "get_corresponding_Yvalue"
  /\ args' = [X_value |-> X_value]
  /\ UNCHANGED <<constructed, X, Y>>

\* PairedSet.combined: np.array([self.X, self.Y]), both rows in the common type
combined_obj(self) ==
  [dtype |-> promote(self.X.dtype, self.Y.dtype), data |-> <<self.X.data, self.Y.data>>]

combined ==
  /\ constructed
  /\ ret' = Return(combined_obj(Self))
  /\ op' = "combined"
  /\ args' = None
  /\ UNCHANGED <<constructed, X, Y>>

\* ------------------------------------------------------------------ series
IndexNames == {"None", "Date"}

\* PairedSet.to_series: pd.Series(self.Y, index=pd.Index(self.X, name=indexing_name))
to_series_obj(self, indexing_name) ==
  [index |-> self.X, name |-> indexing_name, values |-> self.Y]

to_series(indexing_name) ==
  /\ constructed
  /\ ret' = Return(to_series_obj(Self, indexing_name))
  /\ op' = "to_series"
  /\ args' = [indexing_name |-> indexing_name]
  /\ UNCHANGED <<constructed, X, Y>>

\* series.get_series_values
get_series_values(series) == series.values

\* series.to_numpy() where series.index.to_numpy() is meant
get_series_index_Values(series) == series.values

\* series.get_series_index
get_series_index(series) == series.index

\* series_to_pairedset with the guard on series.empty left out
series_to_pairedset_obj_NoEmptyGuard(series) ==
  IF Len(get_series_index(series).data) # Len(get_series_values(series).data)
    THEN Raise("Exception: Index-Value match error.")
  ELSE PairedSet(AsArg(get_series_index(series)), AsArg(get_series_values(series)))

\* series.series_to_pairedset
series_to_pairedset_obj(series) ==
  IF Len(series.index.data) = 0
    THEN Raise("IndexError: Empty Series.")
  ELSE IF Len(get_series_index(series).data) # Len(get_series_values(series).data)
    THEN Raise("Exception: Index-Value match error.")
  ELSE PairedSet(AsArg(get_series_index(series)), AsArg(get_series_values(series)))

\* series_to_pairedset(P.to_series(name))
series_to_pairedset(series) ==
  /\ constructed
  /\ ret' = series_to_pairedset_obj(series)
  /\ op' = "series_to_pairedset"
  /\ args' = [series |-> series]
  /\ UNCHANGED <<constructed, X, Y>>

\* -------------------------------------------------------------- technicals
\* a computed float64 cell is an exact fraction num/den, den > 0; 0/0 is nan
RECURSIVE GCD(_, _)
GCD(a, b) == IF b = 0 THEN a ELSE GCD(b, a % b)

Abs(n) == IF n < 0 THEN 0 - n ELSE n

NaNF == [num |-> 0, den |-> 0]

Frac(n, d) ==
  LET g == GCD(Abs(n), d) IN [num |-> n \div g, den |-> d \div g]

Sign(n) == IF n < 0 THEN 0 - 1 ELSE IF n > 0 THEN 1 ELSE 0

LCM(a, b) == (a \div GCD(a, b)) * b

\* num/0 with num # 0 is an infinity of the sign of num
InfF(sign) == [num |-> sign, den |-> 0]

\* float(v) of a cell the container holds
float(v) == IF v = NaN THEN NaNF ELSE Frac(v, 1)

\* float64 arithmetic, exact on the fractions and IEEE on nan and the infinities
FNeg(a) == [num |-> 0 - a.num, den |-> a.den]

FAdd(a, b) ==
  IF a = NaNF \/ b = NaNF THEN NaNF
  ELSE IF a.den = 0 THEN (IF b.den = 0 /\ b.num # a.num THEN NaNF ELSE a)
  ELSE IF b.den = 0 THEN b
  ELSE LET l == LCM(a.den, b.den) IN
         Frac(a.num * (l \div a.den) + b.num * (l \div b.den), l)

FSub(a, b) == FAdd(a, FNeg(b))

FMul(a, b) ==
  IF a = NaNF \/ b = NaNF THEN NaNF
  ELSE IF a.den = 0 \/ b.den = 0
    THEN (IF a.num = 0 \/ b.num = 0 THEN NaNF ELSE InfF(Sign(a.num) * Sign(b.num)))
  ELSE LET g1 == GCD(Abs(a.num), b.den)
           g2 == GCD(Abs(b.num), a.den)
       IN Frac((a.num \div g1) * (b.num \div g2), (a.den \div g2) * (b.den \div g1))

\* a division in which x/0 is nan for every x
FDiv_ZeroIsNaN(a, b) ==
  IF a = NaNF \/ b = NaNF \/ b.num = 0 THEN NaNF
  ELSE IF b.den = 0 THEN (IF a.den = 0 THEN NaNF ELSE Frac(0, 1))
  ELSE IF a.den = 0 THEN InfF(Sign(a.num) * Sign(b.num))
  ELSE FMul(a, [num |-> Sign(b.num) * b.den, den |-> Abs(b.num)])

FDiv(a, b) ==
  IF a = NaNF \/ b = NaNF THEN NaNF
  ELSE IF b.den = 0 THEN (IF a.den = 0 THEN NaNF ELSE Frac(0, 1))
  ELSE IF b.num = 0 THEN (IF a.num = 0 THEN NaNF ELSE InfF(Sign(a.num)))
  ELSE IF a.den = 0 THEN InfF(Sign(a.num) * Sign(b.num))
  ELSE FMul(a, [num |-> Sign(b.num) * b.den, den |-> Abs(b.num)])

\* a < b on two finite cells
FLess(a, b) == a.num * b.den < b.num * a.den

RECURSIVE FSumRange(_, _, _)
FSumRange(data, lo, hi) ==
  IF lo > hi THEN Frac(0, 1) ELSE FAdd(data[lo], FSumRange(data, lo + 1, hi))

\* the Series pandas computes on: the same index, the cells as float64 values
cells(series) ==
  [index |-> series.index,
   name |-> series.name,
   values |-> [dtype |-> series.values.dtype,
               data |-> [i \in 1..Len(series.values.data) |-> float(series.values.data[i])]]]

\* a Series with the index of series and other cells
with_data(series, dtype, data) ==
  [index |-> series.index, name |-> series.name,
   values |-> [dtype |-> dtype, data |-> data]]

\* Series.mean() dividing by the length, missing cells counted
series_mean_CountAll(data) ==
  LET valid == {i \in 1..Len(data) : data[i] # NaNF}
      only == [i \in 1..Len(data) |-> IF i \in valid THEN data[i] ELSE Frac(0, 1)]
  IN IF valid = {} THEN NaNF
     ELSE FDiv(FSumRange(only, 1, Len(data)), Frac(Len(data), 1))

\* Series.mean(skipna=True): the mean of the cells that are not missing, nan
\* when there is none
series_mean(data) ==
  LET valid == {i \in 1..Len(data) : data[i] # NaNF}
      only == [i \in 1..Len(data) |-> IF i \in valid THEN data[i] ELSE Frac(0, 1)]
  IN IF valid = {} THEN NaNF
     ELSE FDiv(FSumRange(only, 1, Len(data)), Frac(Cardinality(valid), 1))

\* the last position <= i that holds a value, 0 when there is none
LastValid(data, i) ==
  LET valid == {j \in 1..i : data[j] # NaNF} IN
    IF valid = {} THEN 0 ELSE CHOOSE j \in valid : \A k \in valid : k <= j

\* the first position >= i that holds a value, 0 when there is none
FirstValid(data, i) ==
  LET valid == {j \in i..Len(data) : data[j] # NaNF} IN
    IF valid = {} THEN 0 ELSE CHOOSE j \in valid : \A k \in valid : j <= k

\* Series.ffill()
ffill(data) ==
  [i \in 1..Len(data) |->
     IF LastValid(data, i) = 0 THEN NaNF ELSE data[LastValid(data, i)]]

\* Series.bfill()
bfill(data) ==
  [i \in 1..Len(data) |->
     IF FirstValid(data, i) = 0 THEN NaNF ELSE data[FirstValid(data, i)]]

\* fill that propagates without seeding the first cell
fill_obj_NoSeed(series, filling_type) ==
  LET data == series.values.data IN
    IF Len(data) = 0
      THEN Raise("IndexError: single positional indexer is out-of-bounds")
    ELSE IF filling_type = "bfill" /\ data[Len(data)] = NaNF
      THEN Raise("AttributeError: 'Series' object has no attribute 'ilioc'")
    ELSE Return(with_data(series, series.values.dtype, ffill(data)))

\* series.fill(series, filling_type).  In 'bfill' mode a missing last cell
\* reaches "series_copy.ilioc[-1] = mean_series", which raises, and any other
\* last cell leaves the 'bfill' block for the forward fill below it.
fill_obj(series, filling_type) ==
  LET data == series.values.data
      mean_series == series_mean(data)
  IN IF Len(data) = 0
       THEN Raise("IndexError: single positional indexer is out-of-bounds")
     ELSE IF filling_type = "bfill" /\ data[Len(data)] = NaNF
       THEN Raise("AttributeError: 'Series' object has no attribute 'ilioc'")
     ELSE Return(with_data(series, series.values.dtype,
                   ffill(IF data[1] = NaNF THEN [data EXCEPT ![1] = mean_series]
                                           ELSE data)))

\* the series the functions of series.py and technicals.py are given: the
\* container's to_series()
InputSeries == to_series_obj(Self, "None")

FillingTypes == {"ffill", "bfill", "other"}

fill(filling_type) ==
  /\ ret' = fill_obj(cells(InputSeries), filling_type)
  /\ op' = "fill"
  /\ args' = [series |-> InputSeries, filling_type |-> filling_type]
  /\ UNCHANGED <<constructed, X, Y>>

\* Series.min() and Series.max(): over the cells that are not missing, nan
\* when there is none
series_min(data) ==
  LET valid == {i \in 1..Len(data) : data[i] # NaNF} IN
    IF valid = {} THEN NaNF
    ELSE data[CHOOSE i \in valid : \A j \in valid : ~FLess(data[j], data[i])]

series_max(data) ==
  LET valid == {i \in 1..Len(data) : data[i] # NaNF} IN
    IF valid = {} THEN NaNF
    ELSE data[CHOOSE i \in valid : \A j \in valid : ~FLess(data[i], data[j])]

\* Series.var() (ddof=1) over the cells that are not missing: nan when fewer
\* than two are left
series_var(data) ==
  LET valid == {i \in 1..Len(data) : data[i] # NaNF}
      m == series_mean(data)
      sq == [i \in 1..Len(data) |->
               IF i \in valid THEN FMul(FSub(data[i], m), FSub(data[i], m)) ELSE Frac(0, 1)]
  IN IF Cardinality(valid) < 2 THEN NaNF
     ELSE FDiv(FSumRange(sq, 1, Len(data)), Frac(Cardinality(valid) - 1, 1))

\* (v - mean)/std for one cell.  std is the square root of series_var, which
\* need not be a fraction: the cell is held as z*|z|, the square of the score
\* with the score's sign, so that it is nan, zero, positive or negative exactly
\* when the score is.
zscore(v, mean, var) ==
  LET d == FSub(v, mean) IN
    IF d = NaNF THEN NaNF
    ELSE FDiv(FMul(d, [num |-> Abs(d.num), den |-> d.den]), var)

\* the normalization_method argument: left out, None, a name of either method,
\* any other string
Methods == {"<missing>", "None", "minmax", "mm", "m", "z", "other"}

\* series.normalize_series(series, normalization_method); the parameter has no
\* default value, so a call without it is a TypeError
normalize_series_obj(series, normalization_method) ==
  LET data == series.values.data IN
    IF normalization_method = "<missing>"
      THEN Raise("TypeError: normalize_series() missing 1 required positional argument: 'normalization_method'")
    ELSE IF Len(data) = 0 THEN Return(None)
    ELSE IF normalization_method = "z"
      THEN Return(with_data(series, "float64",
             [i \in 1..Len(data) |-> zscore(data[i], series_mean(data), series_var(data))]))
    ELSE IF normalization_method \in {"None", "minmax", "mm", "m"}
      THEN Return(with_data(series, "float64",
             [i \in 1..Len(data) |->
                FDiv(FSub(data[i], series_min(data)),
                     FSub(series_max(data), series_min(data)))]))
    ELSE Raise("ValueError: Use an appropriate normalization method.")

normalize_series(normalization_method) ==
  /\ ret' = normalize_series_obj(cells(InputSeries), normalization_method)
  /\ op' = "normalize_series"
  /\ args' = [series |-> InputSeries, normalization_method |-> normalization_method]
  /\ UNCHANGED <<constructed, X, Y>>

\* Series.rolling(window).mean(): min_periods is window, so a cell is defined
\* only where the window is full and holds no missing cell
rolling_mean(series, window) ==
  LET data == series.values.data IN
    with_data(series, "float64",
      [i \in 1..Len(data) |->
         IF i < window \/ \E j \in (i - window + 1)..i : data[j] = NaNF
           THEN NaNF
           ELSE FDiv(FSumRange(data, i - window + 1, i), Frac(window, 1))])

\* technicals.simple_moving_average, data a PairedSet: data.npfloat_values()
\* changes data, then the rolling mean of data.to_series() is converted back
simple_moving_average_obj(self, window) ==
  LET s1 == [X |-> self.X, Y |-> astype_float64(self.Y)] IN
    [self |-> s1,
     ret |-> series_to_pairedset_obj(rolling_mean(cells(to_series_obj(s1, "None")), window))]

\* technicals.simple_moving_average, data a pd.Series: the rolling mean of the
\* forward-filled series
simple_moving_average_series_obj(data, window) ==
  LET struc == fill_obj(data, "ffill") IN
    IF struc.kind = "raise" THEN struc ELSE Return(rolling_mean(struc.val, window))

simple_moving_average_series(window) ==
  /\ ret' = simple_moving_average_series_obj(cells(InputSeries), window)
  /\ op' = "simple_moving_average"
  /\ args' = [data |-> "Series", series |-> InputSeries, window |-> window]
  /\ UNCHANGED <<constructed, X, Y>>

\* data is the kind of the argument and series the argument itself, a
\* PairedSet being shown as its to_series()
simple_moving_average(window) ==
  /\ constructed
  /\ X' = simple_moving_average_obj(Self, window).self.X
  /\ Y' = simple_moving_average_obj(Self, window).self.Y
  /\ ret' = simple_moving_average_obj(Self, window).ret
  /\ op' = "simple_moving_average"
  /\ args' = [data |-> "PairedSet", series |-> to_series_obj(Self, "None"), window |-> window]
  /\ UNCHANGED constructed

\* Series.ewm(alpha, adjust).mean() up to cell i: the running average weighted
\* and the weight old_wt of what it holds.  A missing cell ages the average
\* (ignore_na is False); an average equal to the new cell is left as it is.
RECURSIVE ewm_state(_, _, _, _)
ewm_state(data, alpha, adjust, i) ==
  IF i = 1 THEN [weighted |-> data[1], old_wt |-> Frac(1, 1)]
  ELSE LET prev == ewm_state(data, alpha, adjust, i - 1)
           cur == data[i]
           new_wt == IF adjust THEN Frac(1, 1) ELSE alpha
           wt == FMul(prev.old_wt, FSub(Frac(1, 1), alpha))
       IN IF prev.weighted = NaNF THEN [weighted |-> cur, old_wt |-> prev.old_wt]
          ELSE IF cur = NaNF THEN [weighted |-> prev.weighted, old_wt |-> wt]
          ELSE [weighted |-> IF prev.weighted = cur THEN cur
                             ELSE FDiv(FAdd(FMul(wt, prev.weighted), FMul(new_wt, cur)),
                                       FAdd(wt, new_wt)),
                old_wt |-> IF adjust THEN FAdd(wt, new_wt) ELSE Frac(1, 1)]

\* ewm that starts the average at zero instead of at the first cell
ewm_mean_FromZero(series, alpha, adjust) ==
  LET data == series.values.data IN
    with_data(series, "float64",
      [i \in 1..Len(data) |->
         ewm_state(<<Frac(0, 1)>> \o data, alpha, adjust, i + 1).weighted])

\* Series.ewm(alpha=alpha, adjust=adjust).mean(), min_periods 0
ewm_mean(series, alpha, adjust) ==
  LET data == series.values.data IN
    with_data(series, "float64",
      [i \in 1..Len(data) |-> ewm_state(data, alpha, adjust, i).weighted])

\* alpha taken as 1/span
span_alpha_Reciprocal(span) == Frac(1, span)

\* ewm(span=lookback): alpha = 2/(span + 1)
span_alpha(span) == Frac(2, span + 1)

\* technicals.ema, data a pd.Series
ema_series_obj(data, lookback, adjust) ==
  Return(ewm_mean(data, span_alpha(lookback), adjust))

\* technicals.ema, data a PairedSet
ema_obj(data, lookback, adjust) ==
  series_to_pairedset_obj(
    ewm_mean(cells(to_series_obj(data, "None")), span_alpha(lookback), adjust))

ema_series(lookback, adjust) ==
  /\ ret' = ema_series_obj(cells(InputSeries), lookback, adjust)
  /\ op' = "ema"
  /\ args' = [data |-> "Series", series |-> InputSeries,
              lookback |-> lookback, adjust |-> adjust]
  /\ UNCHANGED <<constructed, X, Y>>

ema(lookback, adjust) ==
  /\ ret' = ema_obj(Self, lookback, adjust)
  /\ op' = "ema"
  /\ args' = [data |-> "PairedSet", series |-> InputSeries,
              lookback |-> lookback, adjust |-> adjust]
  /\ UNCHANGED <<constructed, X, Y>>

\* ":param args: Either a 1x1 PairedSet object or two values", and the calls
\* with no argument or with one bare value
\* Series.diff(): nothing to subtract from the first cell
diff(data) ==
  [i \in 1..Len(data) |-> IF i = 1 THEN NaNF ELSE FSub(data[i], data[i - 1])]

\* Series.clip(lower=0) and Series.clip(upper=0): a missing cell stays missing
\* a clip that clips nothing
clip_lower_Identity(data) == data

clip_lower(data) ==
  [i \in 1..Len(data) |-> IF data[i].num < 0 THEN Frac(0, 1) ELSE data[i]]

clip_upper(data) ==
  [i \in 1..Len(data) |-> IF data[i].num > 0 THEN Frac(0, 1) ELSE data[i]]

\* rsi smoothing with ewm(span=period) in place of ewm(alpha=1/period)
rsi_series_obj_Span(copy, period) ==
  LET data == copy.values.data
      gain == with_data(copy, "float64", clip_lower(diff(data)))
      loss == with_data(copy, "float64",
                [i \in 1..Len(data) |-> FNeg(clip_upper(diff(data))[i])])
      avg_gain == ewm_mean(gain, span_alpha(period), FALSE).values.data
      avg_loss == ewm_mean(loss, span_alpha(period), FALSE).values.data
  IN with_data(copy, "float64",
       [i \in 1..Len(data) |->
          FSub(Frac(100, 1),
               FDiv(Frac(100, 1), FAdd(Frac(1, 1), FDiv(avg_gain[i], avg_loss[i]))))])

\* technicals.rsi on the series copy.  The sign of a float64 zero is not kept:
\* a quotient x/0 with x > 0 is an infinity of either sign and
\* 100 - 100/(1 + inf) is 100 for both.
rsi_series_obj(copy, period) ==
  LET data == copy.values.data
      gain == with_data(copy, "float64", clip_lower(diff(data)))
      loss == with_data(copy, "float64",
                [i \in 1..Len(data) |-> FNeg(clip_upper(diff(data))[i])])
      alpha == Frac(1, period)
      avg_gain == ewm_mean(gain, alpha, FALSE).values.data
      avg_loss == ewm_mean(loss, alpha, FALSE).values.data
  IN with_data(copy, "float64",
       [i \in 1..Len(data) |->
          FSub(Frac(100, 1),
               FDiv(Frac(100, 1), FAdd(Frac(1, 1), FDiv(avg_gain[i], avg_loss[i]))))])

\* technicals.rsi, data a PairedSet
rsi_obj(data, period) ==
  series_to_pairedset_obj(rsi_series_obj(cells(to_series_obj(data, "None")), period))

rsi_series(period) ==
  /\ ret' = Return(rsi_series_obj(cells(InputSeries), period))
  /\ op' = "rsi"
  /\ args' = [data |-> "Series", series |-> InputSeries, period |-> period]
  /\ UNCHANGED <<constructed, X, Y>>

rsi(period) ==
  /\ ret' = rsi_obj(Self, period)
  /\ op' = "rsi"
  /\ args' = [data |-> "PairedSet", series |-> InputSeries, period |-> period]
  /\ UNCHANGED <<constructed, X, Y>>

\* signal_span where the caller gives none
DefaultSignalSpan == 9

\* macd_all_info with the signal line smoothed from data, not from macd_line
macd_all_info_obj_SignalOfData(data, fast_period, slow_period, signal_span) ==
  LET fast == ewm_mean(data, span_alpha(fast_period), FALSE).values.data
      slow == ewm_mean(data, span_alpha(slow_period), FALSE).values.data
      macd_line == [i \in 1..Len(fast) |-> FSub(fast[i], slow[i])]
      signal_line == ewm_mean(data, span_alpha(signal_span), FALSE).values.data
  IN [index |-> data.index,
      name |-> data.name,
      macd |-> [dtype |-> "float64", data |-> macd_line],
      signal |-> [dtype |-> "float64", data |-> signal_line],
      hist |-> [dtype |-> "float64",
                data |-> [i \in 1..Len(fast) |-> FSub(macd_line[i], signal_line[i])]]]

\* technicals.macd_all_info: the frame of the three columns on data's index
macd_all_info_obj(data, fast_period, slow_period, signal_span) ==
  LET fast == ewm_mean(data, span_alpha(fast_period), FALSE).values.data
      slow == ewm_mean(data, span_alpha(slow_period), FALSE).values.data
      macd_line == with_data(data, "float64",
                     [i \in 1..Len(fast) |-> FSub(fast[i], slow[i])])
      signal_line == ewm_mean(macd_line, span_alpha(signal_span), FALSE)
      hist == [i \in 1..Len(fast) |->
                 FSub(macd_line.values.data[i], signal_line.values.data[i])]
  IN [index |-> data.index,
      name |-> data.name,
      macd |-> macd_line.values,
      signal |-> signal_line.values,
      hist |-> [dtype |-> "float64", data |-> hist]]

\* a column taken without the frame's index: numbered 0, 1, 2, ...
column_RangeIndex(frame, c) ==
  [index |-> [dtype |-> "int64", data |-> [i \in 1..Len(frame.index.data) |-> i - 1]],
   name |-> "None",
   values |-> frame[c]]

\* frame[column]
column(frame, c) == [index |-> frame.index, name |-> frame.name, values |-> frame[c]]

\* a PairedSet branch that fails whatever the try block did
invalid_paired_set_Always(outcome) == Raise("Exception: Paired Set object is invalid.")

\* "try: ... except: raise Exception(...)" around the PairedSet branches
invalid_paired_set(outcome) ==
  IF outcome.kind = "raise" THEN Raise("Exception: Paired Set object is invalid.")
  ELSE outcome

macd_all_info(fast_period, slow_period, signal_span) ==
  /\ ret' = Return(macd_all_info_obj(cells(InputSeries), fast_period, slow_period, signal_span))
  /\ op' = "macd_all_info"
  /\ args' = [data |-> "Series", series |-> InputSeries, fast_period |-> fast_period,
              slow_period |-> slow_period, signal_span |-> signal_span]
  /\ UNCHANGED <<constructed, X, Y>>

\* technicals.macd, data a PairedSet
macd_obj(data, fast_period, slow_period) ==
  invalid_paired_set(series_to_pairedset_obj(
    column(macd_all_info_obj(cells(to_series_obj(data, "None")),
                             fast_period, slow_period, DefaultSignalSpan), "macd")))

\* technicals.macd, data a pd.Series
macd_series_obj(data, fast_period, slow_period) ==
  Return(column(macd_all_info_obj(data, fast_period, slow_period, DefaultSignalSpan), "macd"))

macd(fast_period, slow_period) ==
  /\ ret' = macd_obj(Self, fast_period, slow_period)
  /\ op' = "macd"
  /\ args' = [data |-> "PairedSet", series |-> InputSeries,
              fast_period |-> fast_period, slow_period |-> slow_period]
  /\ UNCHANGED <<constructed, X, Y>>

macd_series(fast_period, slow_period) ==
  /\ ret' = macd_series_obj(cells(InputSeries), fast_period, slow_period)
  /\ op' = "macd"
  /\ args' = [data |-> "Series", series |-> InputSeries,
              fast_period |-> fast_period, slow_period |-> slow_period]
  /\ UNCHANGED <<constructed, X, Y>>

\* technicals.macd_signal, data a PairedSet
macd_signal_obj(data, fast_period, slow_period, signal_span) ==
  invalid_paired_set(series_to_pairedset_obj(
    column(macd_all_info_obj(cells(to_series_obj(data, "None")),
                             fast_period, slow_period, signal_span), "signal")))

\* technicals.macd_signal, data a pd.Series: signal_span is not handed on
macd_signal_series_obj(data, fast_period, slow_period, signal_span) ==
  Return(column(macd_all_info_obj(data, fast_period, slow_period, DefaultSignalSpan), "signal"))

macd_signal(fast_period, slow_period, signal_span) ==
  /\ ret' = macd_signal_obj(Self, fast_period, slow_period, signal_span)
  /\ op' = "macd_signal"
  /\ args' = [data |-> "PairedSet", series |-> InputSeries, fast_period |-> fast_period,
              slow_period |-> slow_period, signal_span |-> signal_span]
  /\ UNCHANGED <<constructed, X, Y>>

macd_signal_series(fast_period, slow_period, signal_span) ==
  /\ ret' = macd_signal_series_obj(cells(InputSeries), fast_period, slow_period, signal_span)
  /\ op' = "macd_signal"
  /\ args' = [data |-> "Series", series |-> InputSeries, fast_period |-> fast_period,
              slow_period |-> slow_period, signal_span |-> signal_span]
  /\ UNCHANGED <<constructed, X, Y>>

\* technicals.macd_hist, data a PairedSet
macd_hist_obj(data, fast_period, slow_period, signal_span) ==
  invalid_paired_set(series_to_pairedset_obj(
    column(macd_all_info_obj(cells(to_series_obj(data, "None")),
                             fast_period, slow_period, signal_span), "hist")))

\* technicals.macd_hist, data a pd.Series: signal_span is not handed on
macd_hist_series_obj(data, fast_period, slow_period, signal_span) ==
  Return(column(macd_all_info_obj(data, fast_period, slow_period, DefaultSignalSpan), "hist"))

macd_hist(fast_period, slow_period, signal_span) ==
  /\ ret' = macd_hist_obj(Self, fast_period, slow_period, signal_span)
  /\ op' = "macd_hist"
  /\ args' = [data |-> "PairedSet", series |-> InputSeries, fast_period |-> fast_period,
              slow_period |-> slow_period, signal_span |-> signal_span]
  /\ UNCHANGED <<constructed, X, Y>>

macd_hist_series(fast_period, slow_period, signal_span) ==
  /\ ret' = macd_hist_series_obj(cells(InputSeries), fast_period, slow_period, signal_span)
  /\ op' = "macd_hist"
  /\ args' = [data |-> "Series", series |-> InputSeries, fast_period |-> fast_period,
              slow_period |-> slow_period, signal_span |-> signal_span]
  /\ UNCHANGED <<constructed, X, Y>>

AppendArgs ==
  {ArgsPairedSet(o) : o \in {c \in Containers : Len(c.X.data) = 1}}
    \cup {ArgsValues(2, x, y) : x \in KeyArgs, y \in ValArgs}
    \cup {ArgsValues(0, NoArg, NoArg)}
    \cup {ArgsValues(1, x, NoArg) : x \in KeyArgs}

\* positions tried: every valid one, and some on either side
Positions == (0 - (MaxLen + 1))..(MaxLen + 1)

Next ==
  \/ \E i \in KeyLists, v \in ValLists : Construct(i, v)
  \/ \E other \in Containers : append_paired_set(other)
  \/ \E a \in AppendArgs : append_single_pair(a)
  \/ npfloat_values
  \/ \E index \in Positions : get_pair_at_index(index)
  \/ \E X_value \in Keys : get_corresponding_Yvalue(X_value)
  \/ combined
  \/ \E nm \in IndexNames : to_series(nm)
  \/ \E nm \in IndexNames : series_to_pairedset(to_series_obj(Self, nm))
  \/ \E window \in 1..MaxWindow : simple_moving_average(window)

Spec == Init /\ [][Next]_vars

\* ------------------------------------- the functions applied to one input
\* key sequences of length n: increasing numbers, increasing text labels, and
\* one number repeated
SeriesKeyLists(n) ==
  {[kind |-> "list_int", data |-> [i \in 1..n |-> i]],
   [kind |-> "list_str", data |-> [i \in 1..n |-> i]],
   [kind |-> "list_int", data |-> [i \in 1..n |-> 1]]}

SeriesValLists(n) ==
  {[kind |-> "list_int", data |-> d] : d \in [1..n -> Numbers]}
    \cup {[kind |-> "list_float", data |-> d] : d \in [1..n -> Vals]}

\* the inputs of the worked examples, [10, 20, 30] and [1, 2, 3, 4, 5] on the
\* index [0, 1, 2, 3, 4], and a series with a missing first cell and a gap
Scenarios ==
  {PairedSet([kind |-> "list_int", data |-> <<0, 1, 2>>],
             [kind |-> "list_float", data |-> <<10, 20, 30>>]).val,
   PairedSet([kind |-> "list_int", data |-> <<0, 1, 2, 3, 4>>],
             [kind |-> "list_float", data |-> <<1, 2, 3, 4, 5>>]).val,
   PairedSet([kind |-> "list_int", data |-> <<0, 1, 2, 3>>],
             [kind |-> "list_float", data |-> <<NaN, 1, NaN, 3>>]).val}

SeriesInputs ==
  UNION {{PairedSet(i, v).val : i \in SeriesKeyLists(n), v \in SeriesValLists(n)} :
           n \in 0..MaxSeriesLen}
    \cup Scenarios

\* window, span and period lengths: positive integers
Periods == 1..MaxPeriod

\* fast_period and slow_period: the spans of the short and of the long average
FastSlow == {<<f, s>> \in Periods \X Periods : f <= s}

\* one container, built and not yet used
InitSeries ==
  /\ constructed = TRUE
  /\ \E c \in SeriesInputs : X = c.X /\ Y = c.Y
  /\ op = "PairedSet"
  /\ args = None
  /\ ret = Return(None)

\* no function has been applied yet
Fresh == op = "PairedSet"

\* one call of one function on the input
NextSeries ==
  \/ \E filling_type \in FillingTypes : Fresh /\ fill(filling_type)
  \/ \E normalization_method \in Methods :
       Fresh /\ normalize_series(normalization_method)
  \/ \E indexing_name \in IndexNames : Fresh /\ to_series(indexing_name)
  \/ Fresh /\ series_to_pairedset(InputSeries)
  \/ \E window \in 1..MaxWindow : Fresh /\ simple_moving_average_series(window)
  \/ \E window \in 1..MaxWindow : Fresh /\ simple_moving_average(window)
  \/ \E lookback \in Periods, adjust \in BOOLEAN : Fresh /\ ema_series(lookback, adjust)
  \/ \E lookback \in Periods, adjust \in BOOLEAN : Fresh /\ ema(lookback, adjust)
  \/ \E period \in Periods : Fresh /\ rsi_series(period)
  \/ \E period \in Periods : Fresh /\ rsi(period)
  \/ \E p \in FastSlow, signal_span \in Periods :
       Fresh /\ macd_all_info(p[1], p[2], signal_span)
  \/ \E p \in FastSlow : Fresh /\ macd_series(p[1], p[2])
  \/ \E p \in FastSlow : Fresh /\ macd(p[1], p[2])
  \/ \E p \in FastSlow, signal_span \in Periods :
       Fresh /\ macd_signal_series(p[1], p[2], signal_span)
  \/ \E p \in FastSlow, signal_span \in Periods :
       Fresh /\ macd_signal(p[1], p[2], signal_span)
  \/ \E p \in FastSlow, signal_span \in Periods :
       Fresh /\ macd_hist_series(p[1], p[2], signal_span)
  \/ \E p \in FastSlow, signal_span \in Periods :
       Fresh /\ macd_hist(p[1], p[2], signal_span)

SpecSeries == InitSeries /\ [][NextSeries]_vars

\* ------------------------------------------------------------------ claims
IsPrefix(s, t) == Len(s) <= Len(t) /\ SubSeq(t, 1, Len(s)) = s

\* text stays text and a number stays a number
SameType(d1, d2) == (d1 = "str") = (d2 = "str")

\* C1: a constructed container holds as many keys as values, after every call,
\* whether it returned or raised
C1_LengthsAgree == constructed => Len(X.data) = Len(Y.data)

C1_Witness ==
  /\ constructed
  /\ op = "append_single_pair"
  /\ ret.kind = "raise"
  /\ Len(X.data) = MaxLen

\* C2: an append either returns having extended X and Y, or raises and leaves
\* X and Y as they were
C2_AppendsAtomic ==
  [][op' \in {"append_single_pair", "append_paired_set"} =>
       \/ ret'.kind = "return" /\ IsPrefix(X.data, X'.data) /\ IsPrefix(Y.data, Y'.data)
       \/ ret'.kind = "raise" /\ X' = X /\ Y' = Y]_vars

\* C3: append_single_pair(x, y) with two values returns, and X and Y are the
\* old X and Y with x and y added at the tail
C3_AppendPairExtends ==
  [][op' = "append_single_pair" /\ args'.n = 2 /\ args'.y.kind = "scalar" =>
       /\ ret'.kind = "return"
       /\ X'.data = X.data \o args'.x.data
       /\ Y'.data = Y.data \o args'.y.data]_vars

\* C4: A.append_paired_set(B) leaves A holding A's old pairs followed by B's
\* pairs, each in their order (also when append_single_pair makes the call)
C4_AppendConcatenates ==
  [][(op' = "append_paired_set" \/ (op' = "append_single_pair" /\ args'.isPS)) =>
       LET B == args'.other
           n == Len(X.data)
       IN  /\ Len(X'.data) = n + Len(B.X.data)
           /\ Len(Y'.data) = n + Len(B.Y.data)
           /\ SubSeq(X'.data, 1, n) = X.data
           /\ SubSeq(Y'.data, 1, n) = Y.data
           /\ SubSeq(X'.data, n + 1, Len(X'.data)) = B.X.data
           /\ SubSeq(Y'.data, n + 1, Len(Y'.data)) = B.Y.data
           /\ X.data # <<>> => SameType(X'.dtype, X.dtype)
           /\ B.X.data # <<>> => SameType(X'.dtype, B.X.dtype)
           /\ X'.dtype # "str" => Y'.dtype # "str"]_vars

C4_Witness ==
  /\ op = "append_paired_set"
  /\ Len(args.other.X.data) = 2
  /\ args.other.X.data[1] # args.other.X.data[2]
  /\ args.other.Y.data[1] # args.other.Y.data[2]
  /\ Len(X.data) = 3

\* C5: no call removes, reorders or changes a pair the container holds: the
\* pairs held before a call are a prefix of those held after it
C5_AppendOnly ==
  [][constructed =>
       /\ IsPrefix(X.data, X'.data)
       /\ IsPrefix(Y.data, Y'.data)
       /\ X.data # <<>> => SameType(X'.dtype, X.dtype)
       /\ SameType(Y'.dtype, Y.dtype)]_vars

C5_Witness ==
  /\ op = "simple_moving_average"
  /\ Len(Y.data) = 3
  /\ Y.data[1] = NaN
  /\ Y.data[3] # NaN
  /\ X.data[1] # X.data[2]

\* C6: PairedSet(a, b) with len(a) # len(b) raises the length error and makes
\* no container; with len(a) = len(b) it holds a and b, element for element
C6_Construct ==
  op = "construct" =>
    IF Len(args.indexing_array.data) # Len(args.value_array.data)
      THEN /\ ret = Raise("Exception: Arrays differ in length.")
           /\ ~constructed
      ELSE /\ ret.kind = "return"
           /\ constructed
           /\ ret.val = Self
           /\ X.data = args.indexing_array.data
           /\ Y.data = args.value_array.data
           /\ X.data # <<>> => (X.dtype = "str") = (args.indexing_array.kind = "list_str")
           /\ Y.dtype # "str"

C6_Witness ==
  /\ op = "construct"
  /\ ret.kind = "raise"
  /\ Len(args.indexing_array.data) = 2
  /\ Len(args.value_array.data) = 1

\* C7: get_pair_at_index(p) with 0 <= p < len returns the pair (X[p], Y[p])
C7_PairAtIndex ==
  op = "get_pair_at_index" /\ 0 <= args.index /\ args.index < Len(X.data) =>
    /\ ret.kind = "return"
    /\ ret.val # None
    /\ ret.val.data = <<X.data[args.index + 1], Y.data[args.index + 1]>>
    /\ SameType(ret.val.dtype, X.dtype)
    /\ SameType(ret.val.dtype, Y.dtype)

\* C8: get_pair_at_index(p) with p < 0 or p >= len fails with a bounds error
C8_OutOfRangeRaises ==
  op = "get_pair_at_index" /\ (args.index < 0 \/ args.index >= Len(X.data)) =>
    ret.kind = "raise"

\* C9: get_corresponding_Yvalue(k) returns Y[i] for the first i with X[i] = k,
\* and the not-found signal, without raising, when k is not in X
C9_FirstMatch ==
  op = "get_corresponding_Yvalue" =>
    LET hits == {i \in 1..Len(X.data) : X.data[i] = args.X_value} IN
      IF hits = {}
        THEN ret = Return(None)
        ELSE LET first == CHOOSE i \in hits : \A j \in hits : i <= j IN
               ret = Return([dtype |-> Y.dtype, data |-> <<Y.data[first]>>])

\* the container that went through to_series and series_to_pairedset came back
RoundTripExact ==
  /\ ret.kind = "return"
  /\ ret.val.X.data = X.data
  /\ ret.val.Y.data = Y.data
  /\ SameType(ret.val.X.dtype, X.dtype)
  /\ ret.val.Y.dtype = Y.dtype

IsRoundTrip ==
  /\ op = "series_to_pairedset"
  /\ args.series = to_series_obj(Self, args.series.name)

\* C10 as stated: every container, the empty one too, survives the round trip
\* to_series, series_to_pairedset
C10_RoundTripAll == IsRoundTrip => RoundTripExact

\* C10: every container that holds at least one pair survives the round trip
\* to_series, series_to_pairedset with its keys and values unchanged
C10_RoundTripNonEmpty == IsRoundTrip /\ X.data # <<>> => RoundTripExact

C10_Witness ==
  /\ IsRoundTrip
  /\ Len(X.data) = 3
  /\ X.data[1] # X.data[2]
  /\ Y.data[2] # Y.data[3]
  /\ ret.kind = "return"

\* C11: series_to_pairedset raises the empty-input error on a series of length
\* zero and makes no container; on any other series it returns the container
\* whose X is the series' index and whose Y is the series' values
C11_SeriesToPairedSet ==
  op = "series_to_pairedset" =>
    IF Len(args.series.values.data) = 0
      THEN ret = Raise("IndexError: Empty Series.")
      ELSE /\ ret.kind = "return"
           /\ ret.val.X = args.series.index
           /\ ret.val.Y = args.series.values

C11_Witness ==
  /\ op = "series_to_pairedset"
  /\ ret.kind = "return"
  /\ Len(args.series.values.data) = 2
  /\ ret.val.X.data # ret.val.Y.data

\* the cells of the series the last call was given
InData == cells(args.series).values.data

\* the cells of the series the last call returned
OutData == ret.val.values.data

Missing(data) == {i \in 1..Len(data) : data[i] = NaNF}

Valid(data) == {i \in 1..Len(data) : data[i] # NaNF}

\* m is the arithmetic mean of the cells of data that are not missing
IsMeanOfValid(m, data) ==
  IF Valid(data) = {} THEN m = NaNF
  ELSE /\ m # NaNF
       /\ FMul(m, Frac(Cardinality(Valid(data)), 1)) =
            FSumRange([i \in 1..Len(data) |-> IF i \in Valid(data) THEN data[i] ELSE Frac(0, 1)],
                      1, Len(data))

\* the call returned a series of the input's length on the input's keys
SameShape ==
  /\ ret.kind = "return"
  /\ ret.val # None
  /\ ret.val.index = args.series.index
  /\ Len(OutData) = Len(InData)

\* C12: fill(series, 'ffill') on a series that has cells returns a series of the
\* same length and keys in which a cell that was not missing is unchanged, a
\* missing cell with a non-missing cell before it holds the nearest such
\* cell's value, and a missing cell with none before it (the first cell, and
\* the missing cells that follow it directly) holds the mean of the input's
\* non-missing cells
C12_ForwardFill ==
  op = "fill" /\ args.filling_type = "ffill" /\ InData # <<>> =>
    /\ SameShape
    /\ \A i \in Valid(InData) : OutData[i] = InData[i]
    /\ \A i \in Missing(InData) :
         IF \E j \in Valid(InData) : j < i
           THEN \E j \in Valid(InData) :
                  /\ j < i
                  /\ \A k \in Valid(InData) : k < i => k <= j
                  /\ OutData[i] = InData[j]
           ELSE IsMeanOfValid(OutData[i], InData)

C12_Witness ==
  /\ op = "fill"
  /\ args.filling_type = "ffill"
  /\ ret.kind = "return"
  /\ Len(InData) = 4
  /\ InData[1] = NaNF
  /\ InData[3] = NaNF
  /\ OutData[1] = Frac(2, 1)
  /\ OutData[3] = Frac(1, 1)

\* C13: fill(series, 'bfill') on a series that has cells returns a series of the
\* same length and keys in which a cell that was not missing is unchanged, a
\* missing cell with a non-missing cell after it holds the nearest such cell's
\* value, and a missing cell with none after it (the last cell, and the missing
\* cells directly before it) holds the mean of the input's non-missing cells
C13_BackwardFill ==
  op = "fill" /\ args.filling_type = "bfill" /\ InData # <<>> =>
    /\ SameShape
    /\ \A i \in Valid(InData) : OutData[i] = InData[i]
    /\ \A i \in Missing(InData) :
         IF \E j \in Valid(InData) : j > i
           THEN \E j \in Valid(InData) :
                  /\ j > i
                  /\ \A k \in Valid(InData) : k > i => k >= j
                  /\ OutData[i] = InData[j]
           ELSE IsMeanOfValid(OutData[i], InData)

\* C14: fill(series, 'ffill') on a series with at least one non-missing cell
\* returns a series with no missing cell
C14_ForwardFillComplete ==
  op = "fill" /\ args.filling_type = "ffill" /\ Valid(InData) # {} =>
    ret.kind = "return" /\ Missing(OutData) = {}

C14_Witness ==
  /\ op = "fill"
  /\ args.filling_type = "ffill"
  /\ Len(InData) = 3
  /\ Missing(InData) = {1, 2}
  /\ ret.kind = "return"
  /\ Missing(OutData) = {}

\* a and b are finite and a <= b
FLeq(a, b) == a.den > 0 /\ b.den > 0 /\ ~FLess(b, a)

\* C15 as stated: normalize_series(series, 'minmax') returns a series of the
\* input's length and keys whose defined cells lie in [0, 1], with 0 at every
\* cell holding the input's minimum, 1 at every cell holding its maximum, and
\* (v - min)/(max - min) at every cell
C15_MinMax ==
  op = "normalize_series" /\ args.normalization_method = "minmax" =>
    /\ SameShape
    /\ \A i \in Valid(OutData) :
         FLeq(Frac(0, 1), OutData[i]) /\ FLeq(OutData[i], Frac(1, 1))
    /\ \A i \in Valid(InData) :
         /\ (\A j \in Valid(InData) : FLeq(InData[i], InData[j])) => OutData[i] = Frac(0, 1)
         /\ (\A j \in Valid(InData) : FLeq(InData[j], InData[i])) => OutData[i] = Frac(1, 1)
         /\ \A lo, hi \in Valid(InData) :
              (\A j \in Valid(InData) : FLeq(InData[lo], InData[j]) /\ FLeq(InData[j], InData[hi]))
                => FMul(OutData[i], FSub(InData[hi], InData[lo])) = FSub(InData[i], InData[lo])

\* every cell of the input that holds a value holds the same one
AllEqual(data) == \A i, j \in Valid(data) : data[i] = data[j]

\* C16: normalize_series raises on an empty series, on max = min under minmax
\* and on a zero deviation under z; what it returns is a series, never None,
\* and holds a finite number wherever the input holds one
C16_DegenerateRaises ==
  op = "normalize_series" =>
    /\ InData = <<>> => ret.kind = "raise"
    /\ args.normalization_method \in {"None", "minmax", "mm", "m", "z"}
         /\ Valid(InData) # {} /\ AllEqual(InData) => ret.kind = "raise"
    /\ ret.kind = "return" =>
         /\ ret.val # None
         /\ \A i \in Valid(InData) : OutData[i].den > 0

\* the cells and the keys of what an indicator returned: a PairedSet when it
\* was given one, a pd.Series when it was given one
OutCells == IF args.data = "Series" THEN ret.val.values.data ELSE ret.val.Y.data

OutKeys == IF args.data = "Series" THEN ret.val.index ELSE ret.val.X

\* the six indicators
Indicators == {"simple_moving_average", "ema", "rsi", "macd", "macd_signal", "macd_hist"}

\* C17: what an indicator returns is of the input's kind (a PairedSet for a
\* PairedSet, a pd.Series for a pd.Series), has the input's key sequence and
\* as many cells as the input; and it does return when the input has cells
C17_SameShape ==
  op \in Indicators =>
    /\ InData # <<>> => ret.kind = "return"
    /\ ret.kind = "return" =>
         /\ DOMAIN ret.val = IF args.data = "Series" THEN {"index", "name", "values"}
                                                     ELSE {"X", "Y"}
         /\ OutKeys = args.series.index
         /\ Len(OutCells) = Len(InData)

C17_Witness ==
  /\ op = "macd_hist"
  /\ args.data = "PairedSet"
  /\ args.series.index.dtype = "str"
  /\ Len(InData) = MaxSeriesLen
  /\ ret.kind = "return"
  /\ OutKeys = args.series.index
  /\ Len(OutCells) = MaxSeriesLen

\* C18: simple_moving_average(data, window) on a Series or PairedSet that has
\* cells returns as many cells as it was given: the first window - 1 are
\* undefined, and every later one is the mean of the window cells ending
\* there of the forward-filled input
C18_MovingAverage ==
  op = "simple_moving_average" /\ InData # <<>> =>
    /\ ret.kind = "return"
    /\ Len(OutCells) = Len(InData)
    /\ LET filled == fill_obj(cells(args.series), "ffill").val.values.data IN
         \A i \in 1..Len(InData) :
           IF i < args.window THEN OutCells[i] = NaNF
           ELSE FMul(OutCells[i], Frac(args.window, 1)) =
                  FSumRange(filled, i - args.window + 1, i)

\* C19: ema(data, lookback) with adjust false on an input without missing
\* cells has ema[0] = data[0] and ema[i] = alpha*data[i] + (1 - alpha)*ema[i-1]
\* with alpha = 2/(lookback + 1)
C19_EmaRecursion ==
  op = "ema" /\ ~args.adjust /\ InData # <<>> /\ Missing(InData) = {} =>
    /\ ret.kind = "return"
    /\ Len(OutCells) = Len(InData)
    /\ OutCells[1] = InData[1]
    /\ \A i \in 2..Len(InData) :
         OutCells[i] =
           FAdd(FMul(Frac(2, args.lookback + 1), InData[i]),
                FMul(FSub(Frac(1, 1), Frac(2, args.lookback + 1)), OutCells[i - 1]))

C19_Witness ==
  /\ op = "ema"
  /\ ~args.adjust
  /\ args.data = "PairedSet"
  /\ args.lookback = 2
  /\ ret.kind = "return"
  /\ Len(InData) = 3
  /\ Missing(InData) = {}
  /\ OutCells[3] # InData[3]
  /\ OutCells[3] # OutCells[2]

\* C20: ema of an input that has cells, all holding the same value v, returns
\* v at every position, for every lookback and either setting of adjust
C20_EmaOfConstant ==
  op = "ema" /\ InData # <<>> /\ Missing(InData) = {} /\ AllEqual(InData) =>
    /\ ret.kind = "return"
    /\ Len(OutCells) = Len(InData)
    /\ \A i \in 1..Len(InData) : OutCells[i] = InData[1]

C20_Witness ==
  /\ op = "ema"
  /\ args.lookback = MaxPeriod
  /\ args.adjust
  /\ args.data = "Series"
  /\ Len(InData) = MaxSeriesLen
  /\ Missing(InData) = {}
  /\ AllEqual(InData)
  /\ ret.kind = "return"
  /\ OutCells[MaxSeriesLen] = Frac(MaxVal, 1)

\* the gains max(d, 0) and the losses max(-d, 0) of the first differences d of
\* a series without missing cells; position 1 has no difference
Gains(data) ==
  [i \in 1..Len(data) |->
     IF i = 1 THEN NaNF
     ELSE IF FLess(data[i - 1], data[i]) THEN FSub(data[i], data[i - 1]) ELSE Frac(0, 1)]

Losses(data) ==
  [i \in 1..Len(data) |->
     IF i = 1 THEN NaNF
     ELSE IF FLess(data[i], data[i - 1]) THEN FSub(data[i - 1], data[i]) ELSE Frac(0, 1)]

\* the unadjusted recursive mean of xs[2..i] with factor alpha, seeded at xs[2]
RECURSIVE Wilder(_, _, _)
Wilder(xs, alpha, i) ==
  IF i <= 2 THEN xs[2]
  ELSE FAdd(FMul(alpha, xs[i]), FMul(FSub(Frac(1, 1), alpha), Wilder(xs, alpha, i - 1)))

AvgGain(i) == Wilder(Gains(InData), Frac(1, args.period), i)

AvgLoss(i) == Wilder(Losses(InData), Frac(1, args.period), i)

\* rsi was called on an input that has cells, none of them missing
RsiOfFull == op = "rsi" /\ InData # <<>> /\ Missing(InData) = {}

\* C21: rsi(data, period) on an input without missing cells returns, at every
\* position past the first, 100 - 100/(1 + avg_gain/avg_loss), the two
\* averages being the recursive means with alpha = 1/period of the gains and
\* the losses, seeded at the first gain and loss; the first position, which
\* has no difference, is undefined
C21_RsiFormula ==
  RsiOfFull =>
    /\ ret.kind = "return"
    /\ Len(OutCells) = Len(InData)
    /\ OutCells[1] = NaNF
    /\ \A i \in 2..Len(InData) :
         OutCells[i] =
           FSub(Frac(100, 1),
                FDiv(Frac(100, 1), FAdd(Frac(1, 1), FDiv(AvgGain(i), AvgLoss(i)))))

C21_Witness ==
  /\ RsiOfFull
  /\ args.period = 2
  /\ ret.kind = "return"
  /\ Len(InData) = 3
  /\ AvgGain(3) = Frac(1, 2)
  /\ AvgLoss(3) = Frac(1, 2)
  /\ OutCells[3] = Frac(50, 1)

\* C22: at every position past the first where the smoothed average loss is
\* zero rsi returns 100, whatever the smoothed average gain is
C22_ZeroLossIs100 ==
  RsiOfFull =>
    /\ ret.kind = "return"
    /\ \A i \in 2..Len(InData) :
         AvgLoss(i) = Frac(0, 1) => OutCells[i] = Frac(100, 1)

\* every cell is greater than the one before it
StrictlyIncreasing(data) == \A i \in 2..Len(data) : FLess(data[i - 1], data[i])

\* C23: rsi of a strictly increasing series longer than period is 100 at every
\* position past the first
C23_RisingIs100 ==
  RsiOfFull /\ StrictlyIncreasing(InData) /\ Len(InData) > args.period =>
    /\ ret.kind = "return"
    /\ \A i \in 2..Len(InData) : OutCells[i] = Frac(100, 1)

C23_Witness ==
  /\ RsiOfFull
  /\ StrictlyIncreasing(InData)
  /\ args.period = 2
  /\ Len(InData) = 5
  /\ ret.kind = "return"
  /\ OutCells[5] = Frac(100, 1)

EMA(x, span) ==
  ema_series_obj(with_data(cells(args.series), "float64", x), span, FALSE).val.values.data

\* C24: macd_all_info(data, fast, slow, span) returns three columns on data's
\* key sequence with, at every position, macd = EMA(data, fast) -
\* EMA(data, slow), signal = EMA(macd, span) and hist = macd - signal
C24_MacdColumns ==
  op = "macd_all_info" =>
    /\ ret.kind = "return"
    /\ ret.val.index = args.series.index
    /\ Len(ret.val.macd.data) = Len(InData)
    /\ Len(ret.val.signal.data) = Len(InData)
    /\ Len(ret.val.hist.data) = Len(InData)
    /\ ret.val.signal.data = EMA(ret.val.macd.data, args.signal_span)
    /\ \A i \in 1..Len(InData) :
         /\ ret.val.macd.data[i] =
              FSub(EMA(InData, args.fast_period)[i], EMA(InData, args.slow_period)[i])
         /\ ret.val.hist.data[i] = FSub(ret.val.macd.data[i], ret.val.signal.data[i])

C24_Witness ==
  /\ op = "macd_all_info"
  /\ ret.kind = "return"
  /\ args.fast_period = 1
  /\ args.slow_period = 2
  /\ args.signal_span = 2
  /\ Len(InData) = 3
  /\ Missing(InData) = {}
  /\ ret.val.macd.data[3] # Frac(0, 1)
  /\ ret.val.signal.data[3] # ret.val.macd.data[3]
  /\ ret.val.hist.data[3] # Frac(0, 1)

\* the accessors of the frame and the column each is to return
Accessors == {"macd", "macd_signal", "macd_hist"}

ColumnOf(f) == IF f = "macd" THEN "macd" ELSE IF f = "macd_signal" THEN "signal" ELSE "hist"

\* the signal_span the last call was given; macd takes none and its column
\* does not depend on it
GivenSpan == IF op = "macd" THEN DefaultSignalSpan ELSE args.signal_span

\* C25: on an input that has cells, macd, macd_signal and macd_hist return the
\* 'macd', 'signal' and 'hist' column of macd_all_info called with the same
\* fast_period, slow_period and signal_span
C25_AccessorIsColumn ==
  op \in Accessors /\ InData # <<>> =>
    /\ ret.kind = "return"
    /\ OutKeys = args.series.index
    /\ OutCells =
         macd_all_info_obj(cells(args.series), args.fast_period, args.slow_period,
                           GivenSpan)[ColumnOf(op)].data

\* the functions that are to leave what they are given as it is
ReadOnly ==
  Indicators \cup {"macd_all_info", "fill", "normalize_series", "series_to_pairedset",
                   "to_series"}

\* C26: a call of an indicator or of a series utility leaves the container
\* as it was: the same keys, the same values, the same element types
C26_InputUnchanged == [][op' \in ReadOnly => X' = X /\ Y' = Y]_vars

\* what the same indicator returns for the series P.to_series()
OfSeries ==
  CASE op = "simple_moving_average" ->
         simple_moving_average_series_obj(cells(args.series), args.window)
    [] op = "ema" -> ema_series_obj(cells(args.series), args.lookback, args.adjust)
    [] op = "rsi" -> Return(rsi_series_obj(cells(args.series), args.period))
    [] op = "macd" ->
         macd_series_obj(cells(args.series), args.fast_period, args.slow_period)
    [] op = "macd_signal" ->
         macd_signal_series_obj(cells(args.series), args.fast_period, args.slow_period,
                                args.signal_span)
    [] op = "macd_hist" ->
         macd_hist_series_obj(cells(args.series), args.fast_period, args.slow_period,
                              args.signal_span)

\* C27: an indicator given a container P that has cells returns the keys and,
\* cell by cell, the values it returns for P.to_series() with the same
\* parameters
C27_SameAsOnSeries ==
  op \in Indicators /\ args.data = "PairedSet" /\ InData # <<>> =>
    /\ ret.kind = "return"
    /\ OfSeries.kind = "return"
    /\ ret.val.X = OfSeries.val.index
    /\ ret.val.Y.data = OfSeries.val.values.data

\* simple_moving_average with a window longer than the input returned only
\* undefined cells
LongWindowUndefined ==
  op = "simple_moving_average" /\ ret.kind = "return" /\ args.window > Len(InData) =>
    Missing(OutCells) = 1..Len(InData)

C29_DefaultMinMax ==
  op = "normalize_series" =>
    /\ args.normalization_method = "<missing>" =>
         ret = normalize_series_obj(cells(args.series), "minmax")
    /\ args.normalization_method = "other" =>
         ret = Raise("ValueError: Use an appropriate normalization method.")

====
